---- MODULE Spec2Model ----
(***************************************************************************)
(* ImageNet Browser: the synset resources (resources/synset.py) and the    *)
(* Mason document builder (utils.py) as a state machine.  The persistent   *)
(* state is the synset table, each synset's ordered hyponym collection and *)
(* the images; every request handler is one action that records the        *)
(* request it served and the response it returned.                         *)
(*                                                                         *)
(* WordNet IDs are modelled by the integers 1..MaxWnid, whose order stands *)
(* for the string order of the identifiers.                                *)
(***************************************************************************)
EXTENDS Integers, Sequences, FiniteSets, TLC

VARIABLES
    synsets,    \* the synset table: rows [wnid, words, gloss, hyponyms]
    images,     \* the image table: image id -> wnid of the owning synset
    req,        \* the request being served, NoRequest between requests
    resp,       \* the response returned to it
    orphans,    \* rows of the hyponym association table whose owning synset
                \* row is gone, as pairs <<wnid, hyponym_wnid>>
    sessions,   \* the requests handled concurrently: each one's position in
                \* its handler and the rows its database session holds
    visited,    \* the wnids of the items a client has seen while it follows
                \* the next controls of one collection
    document,   \* a MasonBuilder document under construction
    last_call   \* the builder call made last on the document

vars == <<synsets, images, req, resp, orphans, sessions, visited, document, last_call>>

(* ------------------------------ bounds -------------------------------- *)

\* WordNet IDs a request can name.
MaxWnid == 3
\* Cap on the number of hyponym edges stored at once.
MaxEdges == 3
\* Image ids a request can name.
MaxImid == 1
\* WordNet IDs of the synsets stored while requests are handled concurrently.
MaxConcurrentWnid == 2
\* WordNet IDs of the synsets stored while a client pages through a collection.
MaxBrowseWnid == 5

Wnids == 1 .. MaxWnid
Imids == 1 .. MaxImid

(* ----------------------------- constants ------------------------------ *)

\* constants.py sets the page size of both paginated collections; 2 lets a page
\* fill up, and leave a rest, with MaxWnid synsets.
SYNSET_PAGE_SIZE == 2

MASON == "application/vnd.mason+json"

(* --------------------------- request inputs --------------------------- *)

\* The raw "start" query parameter: absent, an integer literal, or other text.
StartAbsent == [kind |-> "absent", n |-> 0]
StartInt(k) == [kind |-> "int", n |-> k]
StartText == [kind |-> "text", n |-> 0]
StartArgs == {StartAbsent, StartText} \cup {StartInt(k) : k \in -1 .. MaxWnid}

\* JSON values of a request body.
JStr(v) == [type |-> "string", value |-> v]
JNum(v) == [type |-> "number", value |-> v]

Texts == {<<"w1", "g1">>, <<"w2", "g2">>}

\* request.json: None (no body, or a body that is not JSON) or a JSON object.
NoJson == [present |-> FALSE, object |-> <<>>]
Json(obj) == [present |-> TRUE, object |-> obj]
FullObject(w, t) ==
    ("wnid" :> JStr(w)) @@ ("words" :> JStr(t[1])) @@ ("gloss" :> JStr(t[2]))
\* The bodies sent to the synset collection and to a synset item.
SynsetBodies ==
    {NoJson, Json(<<>>), Json("wnid" :> JNum(42)), Json("wnid" :> JStr(1))}
    \cup {Json(FullObject(w, t)) : w \in Wnids, t \in Texts}

\* The bodies sent to a hyponym collection.
HyponymBodies ==
    {NoJson, Json(<<>>), Json("wnid" :> JNum(42)), Json(FullObject(1, <<"w1", "g1">>))}
    \cup {Json("wnid" :> JStr(w)) : w \in Wnids}

\* Python truthiness of request.json: None and the empty object are falsy.
Truthy(json) == json.present /\ DOMAIN json.object # {}

(* ------------------------- schemas (models.py) ------------------------ *)

\* Synset.get_schema(wnid_only): the required properties, all of type string.
SynsetSchema(wnid_only) ==
    [type |-> "object",
     required |-> IF wnid_only THEN {"wnid"} ELSE {"wnid", "words", "gloss"},
     properties |-> {"wnid", "words", "gloss"}]

\* jsonschema.validate: TRUE iff no ValidationError is raised.
Validate(json, schema) ==
    /\ schema.required \subseteq DOMAIN json.object
    /\ \A k \in DOMAIN json.object \cap schema.properties :
           json.object[k].type = "string"

(* ------------------------------ routing ------------------------------- *)

\* url_for(endpoint, **values), with the "?start=k" suffix the handlers append.
UrlFor(endpoint, values) == [endpoint |-> endpoint, values |-> values, start |-> <<>>]
WithStart(url, k) == [url EXCEPT !.start = <<k>>]

\* constants.py: the fixed URLs.
LINK_RELATIONS_URL == UrlFor("/imagenet_browser/link-relations/", <<>>)
ERROR_PROFILE == UrlFor("/profiles/error/", <<>>)
SYNSET_PROFILE == UrlFor("/profiles/synset/", <<>>)

\* request.path of the request being served.
RequestPath(r) ==
    IF r.handler \in {"SynsetCollection.get", "SynsetCollection.post"}
    THEN UrlFor("api.synsetcollection", <<>>)
    ELSE IF r.handler \in {"SynsetItem.get", "SynsetItem.put", "SynsetItem.delete"}
    THEN UrlFor("api.synsetitem", r.wnid)
    ELSE IF r.handler \in {"SynsetHyponymCollection.get", "SynsetHyponymCollection.post"}
    THEN UrlFor("api.synsethyponymcollection", r.wnid)
    ELSE IF r.handler \in {"SynsetHyponymItem.get", "SynsetHyponymItem.delete"}
    THEN UrlFor("api.synsethyponymitem", r.wnid \o r.hyponym_wnid)
    ELSE UrlFor("api.synsetimagecollection", r.wnid)

(* ------------------------- MasonBuilder (utils.py) -------------------- *)

\* A document is a function from keys to values; MasonBuilder(**kwargs).
EmptyDoc == <<>>

add_error(doc, title, details) ==
    ("@error" :> (("@message" :> title) @@ ("@messages" :> <<details>>))) @@ doc

add_namespace(doc, ns, uri) ==
    LET d == IF "@namespaces" \in DOMAIN doc THEN doc
             ELSE doc @@ ("@namespaces" :> <<>>)
    IN  [d EXCEPT !["@namespaces"] = (ns :> [name |-> uri]) @@ @]

\* A registration that updates the entry it finds instead of replacing it.
add_control_merging(doc, ctrl_name, href, kwargs) ==
    LET d == IF "@controls" \in DOMAIN doc THEN doc
             ELSE doc @@ ("@controls" :> <<>>)
        old == IF ctrl_name \in DOMAIN d["@controls"] THEN d["@controls"][ctrl_name] ELSE <<>>
    IN  [d EXCEPT !["@controls"] = (ctrl_name :> (("href" :> href) @@ kwargs @@ old)) @@ @]

\* kwargs is the control's options; href is stored into them last.
add_control(doc, ctrl_name, href, kwargs) ==
    LET d == IF "@controls" \in DOMAIN doc THEN doc
             ELSE doc @@ ("@controls" :> <<>>)
    IN  [d EXCEPT !["@controls"] = (ctrl_name :> (("href" :> href) @@ kwargs)) @@ @]

NoOptions == <<>>

(* --------------------- ImagenetBrowserBuilder (utils.py) -------------- *)

add_control_add_synset(doc) ==
    add_control(doc, "imagenet_browser:add_synset", UrlFor("api.synsetcollection", <<>>),
                [method |-> "POST", encoding |-> "json", title |-> "Add a new synset",
                 schema |-> SynsetSchema(FALSE)])

add_control_edit_synset(doc, wnid) ==
    add_control(doc, "edit", UrlFor("api.synsetitem", <<wnid>>),
                [method |-> "PUT", encoding |-> "json", title |-> "Edit this synset",
                 schema |-> SynsetSchema(FALSE)])

add_control_delete_synset(doc, wnid) ==
    add_control(doc, "imagenet_browser:delete", UrlFor("api.synsetitem", <<wnid>>),
                [method |-> "DELETE", title |-> "Delete this synset"])

add_control_add_hyponym(doc, wnid) ==
    add_control(doc, "imagenet_browser:add_hyponym",
                UrlFor("api.synsethyponymcollection", <<wnid>>),
                [method |-> "POST", encoding |-> "json", title |-> "Add a new hyponym",
                 schema |-> SynsetSchema(TRUE)])

add_control_delete_hyponym(doc, wnid, hyponym_wnid) ==
    add_control(doc, "imagenet_browser:delete",
                UrlFor("api.synsethyponymitem", <<wnid, hyponym_wnid>>),
                [method |-> "DELETE", title |-> "Delete this hyponym"])

(* ------------------------------ responses ----------------------------- *)

\* flask.Response: status, the Location header if any, the JSON body if any,
\* and the mimetype.
Response(status, location, body, mimetype) ==
    [status |-> status, location |-> location, body |-> body, mimetype |-> mimetype]

\* Response(status=...): no body, flask's default mimetype.
EmptyResponse(status, location) == Response(status, location, <<>>, "text/html")

\* An error response that does not embed the request path.
create_error_response_pathless(r, status_code, title, message) ==
    LET body1 == add_error(EmptyDoc, title, message)
        body2 == add_control(body1, "profile", ERROR_PROFILE, NoOptions)
    IN  Response(status_code, <<>>, <<body2>>, MASON)

create_error_response(r, status_code, title, message) ==
    LET body0 == "resource_url" :> RequestPath(r)
        body1 == add_error(body0, title, message)
        body2 == add_control(body1, "profile", ERROR_PROFILE, NoOptions)
    IN  Response(status_code, <<>>, <<body2>>, MASON)

\* The words and the gloss in each other's place.
SynsetDoc_swapped(wnid, words, gloss) ==
    ("wnid" :> wnid) @@ ("words" :> gloss) @@ ("gloss" :> words)

\* ImagenetBrowserBuilder(wnid=..., words=..., gloss=...).
SynsetDoc(wnid, words, gloss) ==
    ("wnid" :> wnid) @@ ("words" :> words) @@ ("gloss" :> gloss)

(* ------------------------------ storage ------------------------------- *)

\* A row of the synset table; hyponyms is the row's ordered relation
\* collection, holding the wnids of the rows it points to.
Row(wnid, words, gloss, hyps) ==
    [wnid |-> wnid, words |-> words, gloss |-> gloss, hyponyms |-> hyps]

\* Synset.query.filter_by(wnid=wnid).first(): <<row>>, or <<>> for None.
First(wnid) ==
    LET found == {s \in synsets : s.wnid = wnid}
    IN  IF found = {} THEN <<>> ELSE <<CHOOSE s \in found : TRUE>>

\* models.py, unique=True on Synset.wnid: the commit raises IntegrityError when
\* the row being written takes a wnid that another row holds.
IntegrityError(written, wnid) ==
    \E s \in synsets : s.wnid = wnid /\ <<s>> # written

RECURSIVE OrderBy(_)
\* Synset.query.order_by(Synset.wnid): the rows in ascending wnid order.
OrderBy(S) ==
    IF S = {} THEN <<>>
    ELSE LET m == CHOOSE x \in S : \A y \in S : x.wnid <= y.wnid
         IN  <<m>> \o OrderBy(S \ {m})

\* query.offset(start) for start >= 0.
Offset(rows, start) == SubSeq(rows, start + 1, Len(rows))

\* A limit that lets one row too many through.
Limit_inclusive(rows, n) == SubSeq(rows, 1, IF n + 1 < Len(rows) THEN n + 1 ELSE Len(rows))

\* query.limit(n).
Limit(rows, n) == SubSeq(rows, 1, IF n < Len(rows) THEN n ELSE Len(rows))

\* A slice that ignores its start.
SliceFrom_whole(seq, start) == seq

\* Python list slicing seq[start:], a negative start counting from the end.
SliceFrom(seq, start) ==
    LET from == IF start < 0
                THEN (IF Len(seq) + start < 0 THEN 0 ELSE Len(seq) + start)
                ELSE (IF start > Len(seq) THEN Len(seq) ELSE start)
    IN  SubSeq(seq, from + 1, Len(seq))

\* Python list slicing seq[:n] for n >= 0.
SliceTo(seq, n) == SubSeq(seq, 1, IF n < Len(seq) THEN n ELSE Len(seq))

\* A membership test by object identity across two lookups: never a member.
InList_identity(hyps, x) == FALSE

\* synset.hyponyms.index(x): TRUE iff it does not raise ValueError; x is the
\* looked-up row, or None.
InList(hyps, x) == x # <<>> /\ \E i \in 1 .. Len(hyps) : hyps[i] = x[1].wnid

\* synset.hyponyms.remove(x): the list without the first occurrence of x.
Remove(hyps, x) ==
    LET i == CHOOSE j \in 1 .. Len(hyps) :
                 hyps[j] = x[1].wnid /\ \A k \in 1 .. j - 1 : hyps[k] # x[1].wnid
    IN  SubSeq(hyps, 1, i - 1) \o SubSeq(hyps, i + 1, Len(hyps))

\* models.py: the relation and the images refer to the synset row, so they
\* follow a row whose wnid is rewritten.
Renamed(old, new, x) == IF x = old THEN new ELSE x
RenamedList(old, new, hyps) == [i \in 1 .. Len(hyps) |-> Renamed(old, new, hyps[i])]
UpdateRow(row, wnid, words, gloss) ==
    {IF s = row
     THEN Row(wnid, words, gloss, RenamedList(row.wnid, wnid, s.hyponyms))
     ELSE [s EXCEPT !.hyponyms = RenamedList(row.wnid, wnid, @)] : s \in synsets}
UpdateImages(row, wnid) ==
    [i \in DOMAIN images |-> Renamed(row.wnid, wnid, images[i])]

\* models.py: deleting a synset row deletes its images and the hyponym edges
\* that start or end at it.
DeleteRow(row) ==
    {[s EXCEPT !.hyponyms = SelectSeq(@, LAMBDA h : h # row.wnid)] :
        s \in synsets \ {row}}
DeleteImages(row) ==
    [i \in {j \in DOMAIN images : images[j] # row.wnid} |-> images[i]]

\* The number of hyponym edges stored in a table.
EdgeCount(S) ==
    Cardinality({e \in S \X (1 .. MaxEdges + 1) : e[2] <= Len(e[1].hyponyms)})

(* ------------------------------ requests ------------------------------ *)

Request(handler, wnid, hyponym_wnid, start, json) ==
    [handler |-> handler, wnid |-> wnid, hyponym_wnid |-> hyponym_wnid,
     start |-> start, json |-> json]

NoRequest == Request("none", <<>>, <<>>, StartAbsent, NoJson)
NoResponse == EmptyResponse(0, <<>>)

\* What a handler leaves behind: its response and the committed tables.
Result(r, response, S, I) ==
    [req |-> r, resp |-> response, synsets |-> S, images |-> I]

\* A handler that returns without a commit: the session's pending changes are
\* dropped with the request.
NoCommit(r, response) == Result(r, response, synsets, images)

\* int(request.args.get("start", default=0)): TRUE iff no ValueError is raised.
IsInt(arg) == arg.kind # "text"
IntOf(arg) == IF arg.kind = "absent" THEN 0 ELSE arg.n

NotFound(r, wnid) ==
    create_error_response(r, 404, "Not found",
                          <<"No synset with WordNet ID of '{}' found", wnid>>)
HyponymNotFound(r, wnid) ==
    create_error_response(r, 404, "Not found",
                          <<"No synset hyponym with WordNet ID of '{}' found", wnid>>)
UnsupportedMediaType(r) ==
    create_error_response(r, 415, "Unsupported media type", <<"Requests must be JSON">>)
InvalidJson(r) ==
    create_error_response(r, 400, "Invalid JSON document", <<"str(e)">>)
InvalidStart(r) ==
    create_error_response(r, 400, "Invalid query parameter",
                          <<"Query parameter 'start' must be an integer">>)
AlreadyExists(r, wnid) ==
    create_error_response(r, 409, "Already exists",
                          <<"Synset with WordNet ID of '{}' already exists", wnid>>)
HyponymAlreadyExists(r, wnid) ==
    create_error_response(r, 409, "Already exists",
                          <<"Synset hyponym with WordNet ID of '{}' already exists", wnid>>)

(* -------------------------- pagination controls ----------------------- *)

\* "if start >= SYNSET_PAGE_SIZE".
HasPrev(start) == start >= SYNSET_PAGE_SIZE

\* A next control as soon as a full page remains.
HasNext_inclusive(remaining) == Len(remaining) >= SYNSET_PAGE_SIZE

\* "if synsets.count() > SYNSET_PAGE_SIZE", "if len(synset_hyponyms) > SYNSET_PAGE_SIZE".
HasNext(remaining) == Len(remaining) > SYNSET_PAGE_SIZE

\* A next control that points one item too far.
PageControls_skipping(body, url, start, remaining) ==
    LET b1 == IF HasPrev(start)
              THEN add_control(body, "prev", WithStart(url, start - SYNSET_PAGE_SIZE), NoOptions)
              ELSE body
    IN  IF HasNext(remaining)
        THEN add_control(b1, "next", WithStart(url, start + SYNSET_PAGE_SIZE + 1), NoOptions)
        ELSE b1

PageControls(body, url, start, remaining) ==
    LET b1 == IF HasPrev(start)
              THEN add_control(body, "prev", WithStart(url, start - SYNSET_PAGE_SIZE), NoOptions)
              ELSE body
    IN  IF HasNext(remaining)
        THEN add_control(b1, "next", WithStart(url, start + SYNSET_PAGE_SIZE), NoOptions)
        ELSE b1

\* One entry of "items": the synset's fields with its self and profile controls.
Item(synset, self_url) ==
    LET item == SynsetDoc(synset.wnid, synset.words, synset.gloss)
    IN  add_control(add_control(item, "self", self_url, NoOptions),
                    "profile", SYNSET_PROFILE, NoOptions)

(* --------------------------- SynsetCollection ------------------------- *)

\* The 200 response of SynsetCollection.get; rows is the ordered query after
\* its offset.
SynsetCollectionPage(start, rows) ==
    LET url == UrlFor("api.synsetcollection", <<>>)
        b0 == add_namespace(EmptyDoc, "imagenet_browser", LINK_RELATIONS_URL)
        b1 == add_control(b0, "self", url, NoOptions)
        b2 == add_control_add_synset(b1)
        b3 == PageControls(b2, url, start, rows)
        page == Limit(rows, SYNSET_PAGE_SIZE)
        items == [i \in 1 .. Len(page) |->
                     Item(page[i], UrlFor("api.synsetitem", <<page[i].wnid>>))]
    IN  Response(200, <<>>, <<b3 @@ ("items" :> items)>>, MASON)

\* A negative OFFSET is the database's to answer: SQLite reads it as 0, an
\* engine that rejects it (rejects = TRUE) ends the request in a 500.
SynsetCollection_get(start_arg, rejects) ==
    LET r == Request("SynsetCollection.get", <<>>, <<>>, start_arg, NoJson)
        start == IntOf(start_arg)
        ordered == OrderBy(synsets)
    IN  IF ~IsInt(start_arg)
        THEN NoCommit(r, InvalidStart(r))
        ELSE IF start < 0
        THEN (IF rejects THEN NoCommit(r, EmptyResponse(500, <<>>))
              ELSE NoCommit(r, SynsetCollectionPage(start, Offset(ordered, 0))))
        ELSE NoCommit(r, SynsetCollectionPage(start, Offset(ordered, start)))

\* A creation that never reaches the unique constraint: the row is added and
\* 201 returned whether or not the wnid is taken.
SynsetCollection_post_unchecked(json) ==
    LET r == Request("SynsetCollection.post", <<>>, <<>>, StartAbsent, json)
    IN  IF ~Truthy(json)
        THEN NoCommit(r, UnsupportedMediaType(r))
        ELSE IF ~Validate(json, SynsetSchema(FALSE))
        THEN NoCommit(r, InvalidJson(r))
        ELSE LET wnid == json.object["wnid"].value
                 synset == Row(wnid, json.object["words"].value,
                               json.object["gloss"].value, <<>>)
             IN  Result(r, EmptyResponse(201, <<UrlFor("api.synsetitem", <<wnid>>)>>),
                        synsets \cup {synset}, images)

SynsetCollection_post(json) ==
    LET r == Request("SynsetCollection.post", <<>>, <<>>, StartAbsent, json)
    IN  IF ~Truthy(json)
        THEN NoCommit(r, UnsupportedMediaType(r))
        ELSE IF ~Validate(json, SynsetSchema(FALSE))
        THEN NoCommit(r, InvalidJson(r))
        ELSE LET wnid == json.object["wnid"].value
                 synset == Row(wnid, json.object["words"].value,
                               json.object["gloss"].value, <<>>)
             IN  IF IntegrityError(<<>>, wnid)
                 THEN NoCommit(r, AlreadyExists(r, wnid))
                 ELSE Result(r, EmptyResponse(201, <<UrlFor("api.synsetitem", <<wnid>>)>>),
                             synsets \cup {synset}, images)

(* ------------------------------ SynsetItem ---------------------------- *)

SynsetItem_get(wnid) ==
    LET r == Request("SynsetItem.get", <<wnid>>, <<>>, StartAbsent, NoJson)
        synset == First(wnid)
    IN  IF synset = <<>>
        THEN NoCommit(r, NotFound(r, wnid))
        ELSE LET b0 == SynsetDoc(wnid, synset[1].words, synset[1].gloss)
                 b1 == add_namespace(b0, "imagenet_browser", LINK_RELATIONS_URL)
                 b2 == add_control(b1, "self", UrlFor("api.synsetitem", <<wnid>>), NoOptions)
                 b3 == add_control(b2, "profile", SYNSET_PROFILE, NoOptions)
                 b4 == add_control(b3, "collection", UrlFor("api.synsetcollection", <<>>), NoOptions)
                 b5 == add_control_edit_synset(b4, wnid)
                 b6 == add_control_delete_synset(b5, wnid)
                 b7 == add_control(b6, "imagenet_browser:synsethyponymcollection",
                                   UrlFor("api.synsethyponymcollection", <<wnid>>), NoOptions)
                 b8 == add_control(b7, "imagenet_browser:synsetimagecollection",
                                   UrlFor("api.synsetimagecollection", <<wnid>>), NoOptions)
             IN  NoCommit(r, Response(200, <<>>, <<b8>>, MASON))

\* A replacement that looks at the body before it resolves the synset.
SynsetItem_put_body_first(wnid, json) ==
    LET r == Request("SynsetItem.put", <<wnid>>, <<>>, StartAbsent, json)
        synset == First(wnid)
    IN  IF ~Truthy(json)
        THEN NoCommit(r, UnsupportedMediaType(r))
        ELSE IF ~Validate(json, SynsetSchema(FALSE))
        THEN NoCommit(r, InvalidJson(r))
        ELSE IF synset = <<>>
        THEN NoCommit(r, NotFound(r, wnid))
        ELSE LET new == json.object["wnid"].value
             IN  IF IntegrityError(synset, new)
                 THEN NoCommit(r, AlreadyExists(r, new))
                 ELSE Result(r, EmptyResponse(204, <<>>),
                             UpdateRow(synset[1], new, json.object["words"].value,
                                       json.object["gloss"].value),
                             UpdateImages(synset[1], new))

\* A replacement whose words and gloss stay written when the commit fails on
\* the wnid.
SynsetItem_put_partial(wnid, json) ==
    LET r == Request("SynsetItem.put", <<wnid>>, <<>>, StartAbsent, json)
        synset == First(wnid)
    IN  IF synset = <<>>
        THEN NoCommit(r, NotFound(r, wnid))
        ELSE IF ~Truthy(json)
        THEN NoCommit(r, UnsupportedMediaType(r))
        ELSE IF ~Validate(json, SynsetSchema(FALSE))
        THEN NoCommit(r, InvalidJson(r))
        ELSE LET new == json.object["wnid"].value
             IN  IF IntegrityError(synset, new)
                 THEN Result(r, AlreadyExists(r, new),
                             UpdateRow(synset[1], wnid, json.object["words"].value,
                                       json.object["gloss"].value),
                             images)
                 ELSE Result(r, EmptyResponse(204, <<>>),
                             UpdateRow(synset[1], new, json.object["words"].value,
                                       json.object["gloss"].value),
                             UpdateImages(synset[1], new))

\* A replacement that refuses every payload wnid that is in use, the addressed
\* synset's own included.
SynsetItem_put_own_conflict(wnid, json) ==
    LET r == Request("SynsetItem.put", <<wnid>>, <<>>, StartAbsent, json)
        synset == First(wnid)
    IN  IF synset = <<>>
        THEN NoCommit(r, NotFound(r, wnid))
        ELSE IF ~Truthy(json)
        THEN NoCommit(r, UnsupportedMediaType(r))
        ELSE IF ~Validate(json, SynsetSchema(FALSE))
        THEN NoCommit(r, InvalidJson(r))
        ELSE LET new == json.object["wnid"].value
             IN  IF IntegrityError(<<>>, new)
                 THEN NoCommit(r, AlreadyExists(r, new))
                 ELSE Result(r, EmptyResponse(204, <<>>),
                             UpdateRow(synset[1], new, json.object["words"].value,
                                       json.object["gloss"].value),
                             UpdateImages(synset[1], new))

SynsetItem_put(wnid, json) ==
    LET r == Request("SynsetItem.put", <<wnid>>, <<>>, StartAbsent, json)
        synset == First(wnid)
    IN  IF synset = <<>>
        THEN NoCommit(r, NotFound(r, wnid))
        ELSE IF ~Truthy(json)
        THEN NoCommit(r, UnsupportedMediaType(r))
        ELSE IF ~Validate(json, SynsetSchema(FALSE))
        THEN NoCommit(r, InvalidJson(r))
        ELSE LET new == json.object["wnid"].value
             IN  IF IntegrityError(synset, new)
                 THEN NoCommit(r, AlreadyExists(r, new))
                 ELSE Result(r, EmptyResponse(204, <<>>),
                             UpdateRow(synset[1], new, json.object["words"].value,
                                       json.object["gloss"].value),
                             UpdateImages(synset[1], new))

\* A delete that is never committed.
SynsetItem_delete_uncommitted(wnid) ==
    LET r == Request("SynsetItem.delete", <<wnid>>, <<>>, StartAbsent, NoJson)
    IN  IF First(wnid) = <<>>
        THEN NoCommit(r, NotFound(r, wnid))
        ELSE NoCommit(r, EmptyResponse(204, <<>>))

SynsetItem_delete(wnid) ==
    LET r == Request("SynsetItem.delete", <<wnid>>, <<>>, StartAbsent, NoJson)
        synset == First(wnid)
    IN  IF synset = <<>>
        THEN NoCommit(r, NotFound(r, wnid))
        ELSE Result(r, EmptyResponse(204, <<>>), DeleteRow(synset[1]), DeleteImages(synset[1]))

(* ------------------------ SynsetHyponymCollection --------------------- *)

SynsetHyponymCollection_get(wnid, start_arg) ==
    LET r == Request("SynsetHyponymCollection.get", <<wnid>>, <<>>, start_arg, NoJson)
        start == IntOf(start_arg)
        synset == First(wnid)
    IN  IF ~IsInt(start_arg)
        THEN NoCommit(r, InvalidStart(r))
        ELSE IF synset = <<>>
        THEN NoCommit(r, NotFound(r, wnid))
        ELSE LET url == UrlFor("api.synsethyponymcollection", <<wnid>>)
                 b0 == SynsetDoc(wnid, synset[1].words, synset[1].gloss)
                 b1 == add_namespace(b0, "imagenet_browser", LINK_RELATIONS_URL)
                 b2 == add_control(b1, "self", WithStart(url, start), NoOptions)
                 b3 == add_control_add_hyponym(b2, wnid)
                 b4 == add_control(b3, "imagenet_browser:synsetitem",
                                   UrlFor("api.synsetitem", <<wnid>>), NoOptions)
                 synset_hyponyms == SliceFrom(synset[1].hyponyms, start)
                 b5 == PageControls(b4, url, start, synset_hyponyms)
                 page == SliceTo(synset_hyponyms, SYNSET_PAGE_SIZE)
                 items == [i \in 1 .. Len(page) |->
                              Item(First(page[i])[1],
                                   UrlFor("api.synsethyponymitem", <<wnid, page[i]>>))]
             IN  NoCommit(r, Response(200, <<>>, <<b5 @@ ("items" :> items)>>, MASON))

\* An attachment that does not look the hyponym up first.
SynsetHyponymCollection_post_unresolved(wnid, json) ==
    LET r == Request("SynsetHyponymCollection.post", <<wnid>>, <<>>, StartAbsent, json)
        synset == First(wnid)
    IN  IF synset = <<>>
        THEN NoCommit(r, NotFound(r, wnid))
        ELSE IF ~Truthy(json)
        THEN NoCommit(r, UnsupportedMediaType(r))
        ELSE IF ~Validate(json, SynsetSchema(TRUE))
        THEN NoCommit(r, InvalidJson(r))
        ELSE LET hyponym_wnid == json.object["wnid"].value
             IN  IF \E i \in 1 .. Len(synset[1].hyponyms) : synset[1].hyponyms[i] = hyponym_wnid
                 THEN NoCommit(r, HyponymAlreadyExists(r, hyponym_wnid))
                 ELSE Result(r, EmptyResponse(201,
                                 <<UrlFor("api.synsethyponymitem", <<wnid, hyponym_wnid>>)>>),
                             (synsets \ {synset[1]}) \cup
                                 {[synset[1] EXCEPT !.hyponyms = Append(@, hyponym_wnid)]},
                             images)

\* An attachment that refuses a synset as its own hyponym and an edge whose
\* reverse is stored.
SynsetHyponymCollection_post_acyclic(wnid, json) ==
    LET r == Request("SynsetHyponymCollection.post", <<wnid>>, <<>>, StartAbsent, json)
        synset == First(wnid)
    IN  IF synset = <<>>
        THEN NoCommit(r, NotFound(r, wnid))
        ELSE IF ~Truthy(json)
        THEN NoCommit(r, UnsupportedMediaType(r))
        ELSE IF ~Validate(json, SynsetSchema(TRUE))
        THEN NoCommit(r, InvalidJson(r))
        ELSE LET hyponym_wnid == json.object["wnid"].value
                 synset_hyponym == First(hyponym_wnid)
             IN  IF synset_hyponym = <<>>
                 THEN NoCommit(r, NotFound(r, hyponym_wnid))
                 ELSE IF \/ InList(synset[1].hyponyms, synset_hyponym)
                         \/ hyponym_wnid = wnid
                         \/ InList(synset_hyponym[1].hyponyms, synset)
                 THEN NoCommit(r, HyponymAlreadyExists(r, hyponym_wnid))
                 ELSE Result(r, EmptyResponse(201,
                                 <<UrlFor("api.synsethyponymitem", <<wnid, hyponym_wnid>>)>>),
                             (synsets \ {synset[1]}) \cup
                                 {[synset[1] EXCEPT !.hyponyms = Append(@, hyponym_wnid)]},
                             images)

SynsetHyponymCollection_post(wnid, json) ==
    LET r == Request("SynsetHyponymCollection.post", <<wnid>>, <<>>, StartAbsent, json)
        synset == First(wnid)
    IN  IF synset = <<>>
        THEN NoCommit(r, NotFound(r, wnid))
        ELSE IF ~Truthy(json)
        THEN NoCommit(r, UnsupportedMediaType(r))
        ELSE IF ~Validate(json, SynsetSchema(TRUE))
        THEN NoCommit(r, InvalidJson(r))
        ELSE LET hyponym_wnid == json.object["wnid"].value
                 synset_hyponym == First(hyponym_wnid)
             IN  IF synset_hyponym = <<>>
                 THEN NoCommit(r, NotFound(r, hyponym_wnid))
                 ELSE IF InList(synset[1].hyponyms, synset_hyponym)
                 THEN NoCommit(r, HyponymAlreadyExists(r, hyponym_wnid))
                 ELSE Result(r, EmptyResponse(201,
                                 <<UrlFor("api.synsethyponymitem", <<wnid, hyponym_wnid>>)>>),
                             (synsets \ {synset[1]}) \cup
                                 {[synset[1] EXCEPT !.hyponyms = Append(@, hyponym_wnid)]},
                             images)

(* --------------------------- SynsetHyponymItem ------------------------ *)

\* A read that answers for every existing synset, hyponym of the owner or not.
SynsetHyponymItem_get_unchecked(wnid, hyponym_wnid) ==
    LET r == Request("SynsetHyponymItem.get", <<wnid>>, <<hyponym_wnid>>, StartAbsent, NoJson)
        synset == First(wnid)
        synset_hyponym == First(hyponym_wnid)
    IN  IF synset = <<>>
        THEN NoCommit(r, NotFound(r, wnid))
        ELSE IF synset_hyponym = <<>>
        THEN NoCommit(r, HyponymNotFound(r, hyponym_wnid))
        ELSE LET b0 == SynsetDoc(hyponym_wnid, synset_hyponym[1].words, synset_hyponym[1].gloss)
                 b1 == add_control_delete_hyponym(b0, wnid, hyponym_wnid)
             IN  NoCommit(r, Response(200, <<>>, <<b1>>, MASON))

SynsetHyponymItem_get(wnid, hyponym_wnid) ==
    LET r == Request("SynsetHyponymItem.get", <<wnid>>, <<hyponym_wnid>>, StartAbsent, NoJson)
        synset == First(wnid)
        synset_hyponym == First(hyponym_wnid)
    IN  IF synset = <<>>
        THEN NoCommit(r, NotFound(r, wnid))
        ELSE IF ~InList(synset[1].hyponyms, synset_hyponym)
        THEN NoCommit(r, HyponymNotFound(r, hyponym_wnid))
        ELSE LET b0 == SynsetDoc(hyponym_wnid, synset_hyponym[1].words, synset_hyponym[1].gloss)
                 b1 == add_namespace(b0, "imagenet_browser", LINK_RELATIONS_URL)
                 b2 == add_control(b1, "self",
                                   UrlFor("api.synsethyponymitem", <<wnid, hyponym_wnid>>), NoOptions)
                 b3 == add_control(b2, "profile", SYNSET_PROFILE, NoOptions)
                 b4 == add_control(b3, "collection",
                                   UrlFor("api.synsethyponymcollection", <<wnid>>), NoOptions)
                 b5 == add_control_delete_hyponym(b4, wnid, hyponym_wnid)
             IN  NoCommit(r, Response(200, <<>>, <<b5>>, MASON))

\* A removal that deletes the hyponym's synset row instead of the edge.
SynsetHyponymItem_delete_cascading(wnid, hyponym_wnid) ==
    LET r == Request("SynsetHyponymItem.delete", <<wnid>>, <<hyponym_wnid>>, StartAbsent, NoJson)
        synset == First(wnid)
        synset_hyponym == First(hyponym_wnid)
    IN  IF synset = <<>>
        THEN NoCommit(r, NotFound(r, wnid))
        ELSE IF ~InList(synset[1].hyponyms, synset_hyponym)
        THEN NoCommit(r, HyponymNotFound(r, hyponym_wnid))
        ELSE Result(r, EmptyResponse(204, <<>>), DeleteRow(synset_hyponym[1]), images)

SynsetHyponymItem_delete(wnid, hyponym_wnid) ==
    LET r == Request("SynsetHyponymItem.delete", <<wnid>>, <<hyponym_wnid>>, StartAbsent, NoJson)
        synset == First(wnid)
        synset_hyponym == First(hyponym_wnid)
    IN  IF synset = <<>>
        THEN NoCommit(r, NotFound(r, wnid))
        ELSE IF ~InList(synset[1].hyponyms, synset_hyponym)
        THEN NoCommit(r, HyponymNotFound(r, hyponym_wnid))
        ELSE Result(r, EmptyResponse(204, <<>>),
                    (synsets \ {synset[1]}) \cup
                        {[synset[1] EXCEPT !.hyponyms = Remove(@, synset_hyponym)]},
                    images)

(* ------------------------- SynsetImageCollection ---------------------- *)

\* resources/image.py, of which only the creation of an image matters here:
\* the owning synset is resolved first, then the image is stored under it.
SynsetImageCollection_post(wnid, imid) ==
    LET r == Request("SynsetImageCollection.post", <<wnid>>, <<>>, StartAbsent,
                     Json("imid" :> JNum(imid)))
    IN  IF First(wnid) = <<>>
        THEN NoCommit(r, NotFound(r, wnid))
        ELSE IF imid \in DOMAIN images
        THEN NoCommit(r, create_error_response(r, 409, "Already exists", <<"image", imid>>))
        ELSE Result(r, EmptyResponse(201, <<>>), synsets, (imid :> wnid) @@ images)

(* ------------------------------ routing ------------------------------ *)

\* The handler a request is routed to, applied to the current tables; rejects
\* is the database's answer to a negative OFFSET.
Dispatch(r, rejects) ==
    CASE r.handler = "SynsetCollection.get" -> SynsetCollection_get(r.start, rejects)
      [] r.handler = "SynsetCollection.post" -> SynsetCollection_post(r.json)
      [] r.handler = "SynsetItem.get" -> SynsetItem_get(r.wnid[1])
      [] r.handler = "SynsetItem.put" -> SynsetItem_put(r.wnid[1], r.json)
      [] r.handler = "SynsetItem.delete" -> SynsetItem_delete(r.wnid[1])
      [] r.handler = "SynsetHyponymCollection.get" ->
             SynsetHyponymCollection_get(r.wnid[1], r.start)
      [] r.handler = "SynsetHyponymCollection.post" ->
             SynsetHyponymCollection_post(r.wnid[1], r.json)
      [] r.handler = "SynsetHyponymItem.get" ->
             SynsetHyponymItem_get(r.wnid[1], r.hyponym_wnid[1])
      [] r.handler = "SynsetHyponymItem.delete" ->
             SynsetHyponymItem_delete(r.wnid[1], r.hyponym_wnid[1])
      [] r.handler = "SynsetImageCollection.post" ->
             SynsetImageCollection_post(r.wnid[1], r.json.object["imid"].value)

(* ------------------------------ actions ------------------------------- *)

\* A handler's result becomes the response and the committed tables.  The
\* guard keeps the stored edges within MaxEdges: a request that would append one
\* more is not issued.  Every action below serves one request, from arrival
\* (no request is being served) to response.
Serve(result) ==
    /\ EdgeCount(result.synsets) <= MaxEdges
    /\ req' = result.req
    /\ resp' = result.resp
    /\ synsets' = result.synsets
    /\ images' = result.images
    /\ UNCHANGED <<orphans, sessions, visited, document, last_call>>

SynsetCollectionGet(start_arg, rejects) ==
    /\ req = NoRequest
    /\ Serve(SynsetCollection_get(start_arg, rejects))
SynsetCollectionPost(json) ==
    /\ req = NoRequest
    /\ Serve(SynsetCollection_post(json))
SynsetItemGet(wnid) ==
    /\ req = NoRequest
    /\ Serve(SynsetItem_get(wnid))
SynsetItemPut(wnid, json) ==
    /\ req = NoRequest
    /\ Serve(SynsetItem_put(wnid, json))
SynsetItemDelete(wnid) ==
    /\ req = NoRequest
    /\ Serve(SynsetItem_delete(wnid))
SynsetHyponymCollectionGet(wnid, start_arg) ==
    /\ req = NoRequest
    /\ Serve(SynsetHyponymCollection_get(wnid, start_arg))
SynsetHyponymCollectionPost(wnid, json) ==
    /\ req = NoRequest
    /\ Serve(SynsetHyponymCollection_post(wnid, json))
SynsetHyponymItemGet(wnid, hyponym_wnid) ==
    /\ req = NoRequest
    /\ Serve(SynsetHyponymItem_get(wnid, hyponym_wnid))
SynsetHyponymItemDelete(wnid, hyponym_wnid) ==
    /\ req = NoRequest
    /\ Serve(SynsetHyponymItem_delete(wnid, hyponym_wnid))
SynsetImageCollectionPost(wnid, imid) ==
    /\ req = NoRequest
    /\ Serve(SynsetImageCollection_post(wnid, imid))

\* The request ends: its context is dropped, the tables stay.
Teardown ==
    /\ req # NoRequest
    /\ req' = NoRequest
    /\ resp' = NoResponse
    /\ UNCHANGED <<synsets, images, orphans, sessions, visited, document, last_call>>

(* ---------------------------- specification --------------------------- *)

\* No request is handled concurrently, no client is following next controls and
\* no document is under construction.
NoSessions == <<>>
NoCall == [op |-> "none", name |-> "", value |-> <<>>, options |-> <<>>, replaced |-> FALSE]

Init ==
    /\ synsets = {}
    /\ images = <<>>
    /\ req = NoRequest
    /\ resp = NoResponse
    /\ orphans = {}
    /\ sessions = NoSessions
    /\ visited = <<>>
    /\ document = EmptyDoc
    /\ last_call = NoCall

Next ==
    \/ \E start_arg \in StartArgs, rejects \in BOOLEAN : SynsetCollectionGet(start_arg, rejects)
    \/ \E json \in SynsetBodies : SynsetCollectionPost(json)
    \/ \E wnid \in Wnids : SynsetItemGet(wnid)
    \/ \E wnid \in Wnids, json \in SynsetBodies : SynsetItemPut(wnid, json)
    \/ \E wnid \in Wnids : SynsetItemDelete(wnid)
    \/ \E wnid \in Wnids, start_arg \in StartArgs : SynsetHyponymCollectionGet(wnid, start_arg)
    \/ \E wnid \in Wnids, json \in HyponymBodies : SynsetHyponymCollectionPost(wnid, json)
    \/ \E wnid \in Wnids, hyponym_wnid \in Wnids : SynsetHyponymItemGet(wnid, hyponym_wnid)
    \/ \E wnid \in Wnids, hyponym_wnid \in Wnids : SynsetHyponymItemDelete(wnid, hyponym_wnid)
    \/ \E wnid \in Wnids, imid \in Imids : SynsetImageCollectionPost(wnid, imid)
    \/ Teardown

Spec == Init /\ [][Next]_vars

(* ------------------- the document builder on its own ------------------ *)

\* The calls made on a MasonBuilder: control names, hrefs and options, namespace
\* prefixes and URIs.
ControlNames == {"self", "edit"}
Hrefs == {UrlFor("api.synsetcollection", <<>>), UrlFor("api.synsetitem", <<1>>)}
ControlOptions ==
    {NoOptions, "method" :> "DELETE", ("method" :> "PUT") @@ ("title" :> "Edit this synset")}
NamespacePrefixes == {"imagenet_browser", "mumeta"}
Uris == {LINK_RELATIONS_URL, SYNSET_PROFILE}

\* The names registered under a reserved key of a document.
Registered(d, key) == IF key \in DOMAIN d THEN DOMAIN d[key] ELSE {}

\* body.add_control(ctrl_name, href, **kwargs).
AddControl(ctrl_name, href, kwargs) ==
    /\ document' = add_control(document, ctrl_name, href, kwargs)
    /\ last_call' = [op |-> "add_control", name |-> ctrl_name, value |-> href,
                     options |-> kwargs,
                     replaced |-> ctrl_name \in Registered(document, "@controls")]
    /\ UNCHANGED <<synsets, images, req, resp, orphans, sessions, visited>>

\* body.add_namespace(ns, uri).
AddNamespace(ns, uri) ==
    /\ document' = add_namespace(document, ns, uri)
    /\ last_call' = [op |-> "add_namespace", name |-> ns, value |-> uri,
                     options |-> NoOptions,
                     replaced |-> ns \in Registered(document, "@namespaces")]
    /\ UNCHANGED <<synsets, images, req, resp, orphans, sessions, visited>>

\* MasonBuilder(**kwargs): a document seeded with no field or with a synset's.
InitBuilder ==
    /\ document \in {EmptyDoc, SynsetDoc(1, "w1", "g1")}
    /\ last_call = NoCall
    /\ synsets = {}
    /\ images = <<>>
    /\ req = NoRequest
    /\ resp = NoResponse
    /\ orphans = {}
    /\ sessions = NoSessions
    /\ visited = <<>>

NextBuilder ==
    \/ \E ctrl_name \in ControlNames, href \in Hrefs, kwargs \in ControlOptions :
           AddControl(ctrl_name, href, kwargs)
    \/ \E ns \in NamespacePrefixes, uri \in Uris : AddNamespace(ns, uri)

SpecBuilder == InitBuilder /\ [][NextBuilder]_vars

(* ------------------- a client paging through a collection ------------ *)

BrowseWnids == 1 .. MaxBrowseWnid

RECURSIVE Descending(_)
\* The wnids of a set, the largest first.
Descending(Y) ==
    IF Y = {} THEN <<>>
    ELSE LET m == CHOOSE x \in Y : \A y \in Y : y <= x
         IN  <<m>> \o Descending(Y \ {m})

\* The tables paged through: any set X of synsets, the one with the smallest
\* wnid having any of them as its hyponyms, in the order they were attached
\* (here the largest first).
BrowseTables ==
    {{Row(w, "w1", "g1", IF \A x \in X : w <= x THEN Descending(Y) ELSE <<>>) : w \in X} :
        <<X, Y>> \in {xy \in (SUBSET BrowseWnids) \X (SUBSET BrowseWnids) : xy[2] \subseteq xy[1]}}

\* The wnids of the items of a page, in page order; none for an error.
ItemWnids(response) ==
    IF response.status # 200 THEN <<>>
    ELSE [i \in 1 .. Len(response.body[1]["items"]) |-> response.body[1]["items"][i]["wnid"]]

\* The response has a next control.
HasNextControl(response) ==
    /\ response.status = 200
    /\ "next" \in DOMAIN response.body[1]["@controls"]

\* The client receives a page of a GET and notes its items.
Receive(result) ==
    /\ req' = result.req
    /\ resp' = result.resp
    /\ visited' = visited \o ItemWnids(result.resp)
    /\ UNCHANGED <<synsets, images, orphans, sessions, document, last_call>>

\* The client GETs the Synset Collection without a start.
BrowseSynsetCollection ==
    /\ req = NoRequest
    /\ Receive(SynsetCollection_get(StartAbsent, FALSE))

\* The client GETs the Hyponym Collection of a stored synset without a start.
BrowseHyponymCollection(wnid) ==
    /\ req = NoRequest
    /\ First(wnid) # <<>>
    /\ Receive(SynsetHyponymCollection_get(wnid, StartAbsent))

\* The client GETs the href of the next control of the page it holds.
FollowNext ==
    /\ req # NoRequest
    /\ HasNextControl(resp)
    /\ LET href == resp.body[1]["@controls"]["next"]["href"]
       IN  IF href.endpoint = "api.synsetcollection"
           THEN Receive(SynsetCollection_get(StartInt(href.start[1]), FALSE))
           ELSE Receive(SynsetHyponymCollection_get(href.values[1], StartInt(href.start[1])))

InitBrowse ==
    /\ synsets \in BrowseTables
    /\ images = <<>>
    /\ req = NoRequest
    /\ resp = NoResponse
    /\ orphans = {}
    /\ sessions = NoSessions
    /\ visited = <<>>
    /\ document = EmptyDoc
    /\ last_call = NoCall

NextBrowse ==
    \/ BrowseSynsetCollection
    \/ \E wnid \in BrowseWnids : BrowseHyponymCollection(wnid)
    \/ FollowNext

\* A client that holds a page with a next control goes on to follow it.
SpecBrowse == InitBrowse /\ [][NextBrowse]_vars /\ WF_vars(FollowNext)

(* ------------------- requests handled concurrently -------------------- *)

\* Two requests are in progress at once, each in a database session of its
\* own: a Hyponym Collection POST of {wnid: hyponym_wnid}, a body that passes
\* the checks of lines 262-272, or a Synset Item DELETE.  A step of a request is
\* a statement of its handler that reads or writes the database, or its last
\* local statement.
Procs == {1, 2}
ConcurrentWnids == 1 .. MaxConcurrentWnid

ConcurrentRequests ==
    {[handler |-> "SynsetHyponymCollection.post", wnid |-> a, hyponym_wnid |-> <<b>>] :
        a \in ConcurrentWnids, b \in ConcurrentWnids}
    \cup {[handler |-> "SynsetItem.delete", wnid |-> w, hyponym_wnid |-> <<>>] :
        w \in ConcurrentWnids}

\* The tables the requests arrive at: every synset stored, each with no hyponym
\* or with one.
ConcurrentTables ==
    {{Row(w, "w1", "g1", h[w]) : w \in ConcurrentWnids} :
        h \in [ConcurrentWnids -> {<<>>} \cup {<<b>> : b \in ConcurrentWnids}]}

\* The edge wnid -> hyponym_wnid is stored.
Stored(wnid, hyponym_wnid) ==
    \/ \E s \in synsets : /\ s.wnid = wnid
                          /\ \E i \in 1 .. Len(s.hyponyms) : s.hyponyms[i] = hyponym_wnid
    \/ <<wnid, hyponym_wnid>> \in orphans

\* A request on arrival: at the first statement of its handler, its session
\* empty, not answered (status 0); edge_at_arrival notes whether the edge a POST
\* names was stored then.
StartSession(r) ==
    [handler |-> r.handler, wnid |-> r.wnid, hyponym_wnid |-> r.hyponym_wnid,
     pc |-> "lookup_synset", synset |-> <<>>, synset_hyponym |-> <<>>,
     hyponyms |-> <<>>, status |-> 0,
     edge_at_arrival |-> r.hyponym_wnid # <<>> /\ Stored(r.wnid, r.hyponym_wnid[1])]

\* The request answers and ends.
Answer(p, status) ==
    sessions' = [sessions EXCEPT ![p].pc = "done", ![p].status = status]

\* The lazy load of synset.hyponyms: the association rows of the synset joined
\* with the rows they point to, read when the collection is first used.
Loaded(wnid) ==
    LET row == First(wnid)
    IN  IF row = <<>> THEN <<>>
        ELSE SelectSeq(row[1].hyponyms, LAMBDA h : First(h) # <<>>)

\* SynsetHyponymCollection.post, lines 254-272.
PostLookupSynset(p) ==
    /\ sessions[p].handler = "SynsetHyponymCollection.post"
    /\ sessions[p].pc = "lookup_synset"
    /\ LET synset == First(sessions[p].wnid)
       IN  IF synset = <<>>
           THEN Answer(p, 404)
           ELSE sessions' = [sessions EXCEPT ![p].synset = synset,
                                             ![p].pc = "lookup_hyponym"]
    /\ UNCHANGED <<synsets, images, req, resp, orphans, visited, document, last_call>>

\* Lines 274-280.
PostLookupHyponym(p) ==
    /\ sessions[p].handler = "SynsetHyponymCollection.post"
    /\ sessions[p].pc = "lookup_hyponym"
    /\ LET synset_hyponym == First(sessions[p].hyponym_wnid[1])
       IN  IF synset_hyponym = <<>>
           THEN Answer(p, 404)
           ELSE sessions' = [sessions EXCEPT ![p].synset_hyponym = synset_hyponym,
                                             ![p].pc = "index"]
    /\ UNCHANGED <<synsets, images, req, resp, orphans, visited, document, last_call>>

\* Lines 282-291: synset.hyponyms is loaded and searched.
PostIndex(p) ==
    /\ sessions[p].handler = "SynsetHyponymCollection.post"
    /\ sessions[p].pc = "index"
    /\ LET hyponyms == Loaded(sessions[p].wnid)
       IN  IF InList(hyponyms, sessions[p].synset_hyponym)
           THEN Answer(p, 409)
           ELSE sessions' = [sessions EXCEPT ![p].hyponyms = hyponyms,
                                             ![p].pc = "append"]
    /\ UNCHANGED <<synsets, images, req, resp, orphans, visited, document, last_call>>

\* Line 293: the append, in the session only.
PostAppend(p) ==
    /\ sessions[p].handler = "SynsetHyponymCollection.post"
    /\ sessions[p].pc = "append"
    /\ sessions' = [sessions EXCEPT
                       ![p].hyponyms = Append(@, sessions[p].hyponym_wnid[1]),
                       ![p].pc = "commit"]
    /\ UNCHANGED <<synsets, images, req, resp, orphans, visited, document, last_call>>

\* Lines 294-298: the commit inserts the one association row.  The row may be
\* stored already, or point from or to a synset row deleted in the meantime;
\* whether the association table refuses such a row is the schema's and the
\* engine's (enforced).  When it does, the IntegrityError is caught nowhere and
\* the request ends in a 500; when it does not, the row is stored.
PostCommit(p, enforced) ==
    /\ sessions[p].handler = "SynsetHyponymCollection.post"
    /\ sessions[p].pc = "commit"
    /\ LET wnid == sessions[p].wnid
           hyponym_wnid == sessions[p].hyponym_wnid[1]
           row == First(wnid)
           refused == \/ Stored(wnid, hyponym_wnid)
                      \/ row = <<>>
                      \/ First(hyponym_wnid) = <<>>
       IN  IF refused /\ enforced
           THEN /\ Answer(p, 500)
                /\ UNCHANGED <<synsets, orphans>>
           ELSE /\ Answer(p, 201)
                /\ IF row = <<>>
                   THEN /\ orphans' = orphans \cup {<<wnid, hyponym_wnid>>}
                        /\ UNCHANGED synsets
                   ELSE /\ synsets' = (synsets \ {row[1]}) \cup
                               {[row[1] EXCEPT !.hyponyms = Append(@, hyponym_wnid)]}
                        /\ UNCHANGED orphans
    /\ UNCHANGED <<images, req, resp, visited, document, last_call>>

\* SynsetItem.delete, lines 175-181.
DeleteLookup(p) ==
    /\ sessions[p].handler = "SynsetItem.delete"
    /\ sessions[p].pc = "lookup_synset"
    /\ LET synset == First(sessions[p].wnid)
       IN  IF synset = <<>>
           THEN Answer(p, 404)
           ELSE sessions' = [sessions EXCEPT ![p].synset = synset, ![p].pc = "delete"]
    /\ UNCHANGED <<synsets, images, req, resp, orphans, visited, document, last_call>>

\* Line 183: db.session.delete(synset), in the session only.
DeleteMark(p) ==
    /\ sessions[p].handler = "SynsetItem.delete"
    /\ sessions[p].pc = "delete"
    /\ sessions' = [sessions EXCEPT ![p].pc = "commit"]
    /\ UNCHANGED <<synsets, images, req, resp, orphans, visited, document, last_call>>

\* Lines 184-186: the commit deletes the row, with its images and the
\* association rows that point from or to it; a row another request deleted in
\* the meantime matches nothing and the request still answers 204.
DeleteCommit(p) ==
    /\ sessions[p].handler = "SynsetItem.delete"
    /\ sessions[p].pc = "commit"
    /\ LET wnid == sessions[p].wnid
           row == First(wnid)
       IN  IF row = <<>>
           THEN UNCHANGED <<synsets, images, orphans>>
           ELSE /\ synsets' = DeleteRow(row[1])
                /\ images' = DeleteImages(row[1])
                /\ orphans' = {o \in orphans : o[1] # wnid /\ o[2] # wnid}
    /\ Answer(p, 204)
    /\ UNCHANGED <<req, resp, visited, document, last_call>>

InitConcurrent ==
    /\ synsets \in ConcurrentTables
    /\ images = <<>>
    /\ req = NoRequest
    /\ resp = NoResponse
    /\ orphans = {}
    /\ \E r \in [Procs -> ConcurrentRequests] :
           sessions = [p \in Procs |-> StartSession(r[p])]
    /\ visited = <<>>
    /\ document = EmptyDoc
    /\ last_call = NoCall

NextConcurrent ==
    \/ \E p \in Procs : PostLookupSynset(p)
    \/ \E p \in Procs : PostLookupHyponym(p)
    \/ \E p \in Procs : PostIndex(p)
    \/ \E p \in Procs : PostAppend(p)
    \/ \E p \in Procs, enforced \in BOOLEAN : PostCommit(p, enforced)
    \/ \E p \in Procs : DeleteLookup(p)
    \/ \E p \in Procs : DeleteMark(p)
    \/ \E p \in Procs : DeleteCommit(p)

SpecConcurrent == InitConcurrent /\ [][NextConcurrent]_vars

(* ------------------------------- claims ------------------------------- *)

Exists(wnid) == \E s \in synsets : s.wnid = wnid
HasEdge(S, a, b) == \E s \in S : s.wnid = a /\ \E i \in 1 .. Len(s.hyponyms) : s.hyponyms[i] = b
Fields(s) == <<s.wnid, s.words, s.gloss>>
Served(handler, status) == req.handler = handler /\ resp.status = status
ValidSynset(json) == Truthy(json) /\ Validate(json, SynsetSchema(FALSE))
WnidOnly(wnid) == Json("wnid" :> JStr(wnid))

\* C1: whenever a synset with wnid w exists, a Synset Collection POST of a
\* schema-valid payload with that wnid is answered 409, and afterwards there is
\* exactly one synset with wnid w, its words and gloss as before.
C1_PostExistingIsConflict ==
    [][\A json \in SynsetBodies :
          (/\ req = NoRequest
           /\ req' = SynsetCollection_post(json).req
           /\ ValidSynset(json)
           /\ Exists(json.object["wnid"].value))
          => LET w == json.object["wnid"].value
             IN  /\ resp'.status = 409
                 /\ Cardinality({s \in synsets' : s.wnid = w}) = 1
                 /\ {Fields(s) : s \in {t \in synsets' : t.wnid = w}}
                        = {Fields(s) : s \in {t \in synsets : t.wnid = w}}]_vars

\* C1 witness: a creation was refused with 409 while the stored synset of that
\* wnid holds other words than the payload.
C1_Witness ==
    /\ Served("SynsetCollection.post", 409)
    /\ \E s \in synsets : /\ s.wnid = req.json.object["wnid"].value
                          /\ s.words # req.json.object["words"].value

\* C2: for existing A and B without the edge A->B, a POST of {wnid: B} to A's
\* hyponyms that arrives is answered 201 and right after it the same POST is
\* answered 409; with the edge present a DELETE of (A,B) that arrives is answered
\* 204 and right after it the same DELETE is answered 404; the edge is there
\* after the 201 and the 409 and gone after the 204 and the 404.
C2_EdgeTwice ==
    \A a \in Wnids, b \in Wnids :
        LET post == SynsetHyponymCollection_post(a, WnidOnly(b))
            del == SynsetHyponymItem_delete(a, b)
        IN  /\ (req = NoRequest /\ Exists(a) /\ Exists(b) /\ ~HasEdge(synsets, a, b))
                  => post.resp.status = 201 /\ HasEdge(post.synsets, a, b)
            /\ (req = post.req /\ resp.status = 201)
                  => /\ HasEdge(synsets, a, b)
                     /\ post.resp.status = 409
                     /\ HasEdge(post.synsets, a, b)
            /\ (req = NoRequest /\ HasEdge(synsets, a, b))
                  => del.resp.status = 204 /\ ~HasEdge(del.synsets, a, b)
            /\ (req = del.req /\ resp.status = 204)
                  => /\ ~HasEdge(synsets, a, b)
                     /\ del.resp.status = 404
                     /\ ~HasEdge(del.synsets, a, b)

\* C2 witness: an edge between two different synsets was removed with 204 (so
\* it had been created before).
C2_Witness ==
    /\ Served("SynsetHyponymItem.delete", 204)
    /\ req.wnid # req.hyponym_wnid

\* C3: right after a Synset Item DELETE of S answered 204, no hyponym edge
\* starts or ends at S, no image is owned by S, and GET of the synset item S and
\* of the hyponym items (X,S) and (S,X) is answered 404 for every X.
C3_DeleteCascades ==
    \A w \in Wnids :
        (req = SynsetItem_delete(w).req /\ resp.status = 204)
        => /\ ~Exists(w)
           /\ \A x \in Wnids : ~HasEdge(synsets, x, w) /\ ~HasEdge(synsets, w, x)
           /\ \A i \in DOMAIN images : images[i] # w
           /\ SynsetItem_get(w).resp.status = 404
           /\ \A x \in Wnids : /\ SynsetHyponymItem_get(x, w).resp.status = 404
                               /\ SynsetHyponymItem_get(w, x).resp.status = 404

\* C3 witness: a synset was deleted with 204 while another synset, with a
\* hyponym edge of its own and an image, stays behind.
C3_Witness ==
    /\ Served("SynsetItem.delete", 204)
    /\ \E s \in synsets : s.hyponyms # <<>>
    /\ images # <<>>

\* C4: in every reachable state each hyponym edge points from an existing synset
\* to an existing synset, and no hyponym collection holds a synset twice.
C4_EdgesReferenceSynsets ==
    \A s \in synsets :
        /\ \A i \in 1 .. Len(s.hyponyms) : Exists(s.hyponyms[i])
        /\ \A i \in 1 .. Len(s.hyponyms), j \in 1 .. Len(s.hyponyms) :
               s.hyponyms[i] = s.hyponyms[j] => i = j

\* C4 witness: a synset that is another synset's hyponym was given a new wnid by
\* a PUT answered 204.
C4_Witness ==
    /\ Served("SynsetItem.put", 204)
    /\ req.json.object["wnid"].value # req.wnid[1]
    /\ \E s \in synsets : /\ s.wnid # req.json.object["wnid"].value
                          /\ HasEdge(synsets, s.wnid, req.json.object["wnid"].value)

\* C5: a Synset Collection POST of a schema-valid payload whose wnid is not in
\* use is answered 201 with the Location of the synset item of that wnid, and a
\* GET of that Location right after it is answered 200 with the payload's wnid,
\* words and gloss.
C5_PostThenGet ==
    [][\A json \in SynsetBodies :
          (/\ req = NoRequest
           /\ req' = SynsetCollection_post(json).req
           /\ ValidSynset(json)
           /\ ~Exists(json.object["wnid"].value))
          => /\ resp'.status = 201
             /\ resp'.location = <<UrlFor("api.synsetitem", <<json.object["wnid"].value>>)>>
             /\ LET got == SynsetItem_get(json.object["wnid"].value)'
                IN  /\ got.resp.status = 200
                    /\ got.resp.body[1]["wnid"] = json.object["wnid"].value
                    /\ got.resp.body[1]["words"] = json.object["words"].value
                    /\ got.resp.body[1]["gloss"] = json.object["gloss"].value]_vars

\* C5 witness: a synset with the second pair of texts was created with 201.
C5_Witness ==
    /\ Served("SynsetCollection.post", 201)
    /\ req.json.object["words"].value = "w2"
    /\ resp.location # <<>>

\* The start a collection GET asked for, when it is a non-negative integer.
NonNegativeStart(r) == r.start.kind = "absent" \/ (r.start.kind = "int" /\ r.start.n >= 0)
StartOf(r) == IF r.start.kind = "absent" THEN 0 ELSE r.start.n
\* The number of stored synsets with a smaller wnid.
Rank(wnid) == Cardinality({s \in synsets : s.wnid < wnid})

\* C6: for every start >= 0, Synset Collection GET is answered 200 with, as
\* items, exactly the synsets of rank start .. start+pageSize-1 in ascending
\* wnid order: at most pageSize items, ascending, none repeated.
C6_PageItems ==
    (req.handler = "SynsetCollection.get" /\ NonNegativeStart(req))
    => /\ resp.status = 200
       /\ LET items == resp.body[1]["items"]
              start == StartOf(req)
          IN  /\ Len(items) <= SYNSET_PAGE_SIZE
              /\ {items[i]["wnid"] : i \in 1 .. Len(items)}
                     = {s.wnid : s \in {t \in synsets :
                                          /\ start <= Rank(t.wnid)
                                          /\ Rank(t.wnid) < start + SYNSET_PAGE_SIZE}}
              /\ \A i \in 1 .. Len(items), j \in 1 .. Len(items) :
                     i < j => items[i]["wnid"] < items[j]["wnid"]
              /\ \A i \in 1 .. Len(items) : \E s \in synsets :
                     /\ s.wnid = items[i]["wnid"]
                     /\ s.words = items[i]["words"]
                     /\ s.gloss = items[i]["gloss"]

\* C6 witness: a page that starts past the first synset and is full.
C6_Witness ==
    /\ Served("SynsetCollection.get", 200)
    /\ req.start.kind = "int" /\ req.start.n = 1
    /\ Len(resp.body[1]["items"]) = SYNSET_PAGE_SIZE

\* C7: for every start >= 0, the Synset Collection GET response has a prev
\* control iff start >= pageSize and a next control iff more than pageSize
\* synsets have rank >= start; prev points at start-pageSize, next at
\* start+pageSize; the add_synset control is on every page.
C7_PageControls ==
    (req.handler = "SynsetCollection.get" /\ NonNegativeStart(req))
    => /\ resp.status = 200
       /\ LET controls == resp.body[1]["@controls"]
              start == StartOf(req)
              url == UrlFor("api.synsetcollection", <<>>)
          IN  /\ "prev" \in DOMAIN controls <=> start >= SYNSET_PAGE_SIZE
              /\ "next" \in DOMAIN controls
                     <=> Cardinality({s \in synsets : Rank(s.wnid) >= start}) > SYNSET_PAGE_SIZE
              /\ "prev" \in DOMAIN controls
                     => controls["prev"]["href"] = WithStart(url, start - SYNSET_PAGE_SIZE)
              /\ "next" \in DOMAIN controls
                     => controls["next"]["href"] = WithStart(url, start + SYNSET_PAGE_SIZE)
              /\ "imagenet_browser:add_synset" \in DOMAIN controls

\* C7 witness: a first page with a next control.
C7_Witness ==
    /\ Served("SynsetCollection.get", 200)
    /\ NonNegativeStart(req)
    /\ "next" \in DOMAIN resp.body[1]["@controls"]

\* C8 (as claimed): a GET of the Synset Collection or of a Hyponym Collection
\* whose start is not a non-negative integer is answered 400 and carries no
\* items.
C8_BadStartIs400 ==
    (/\ req.handler \in {"SynsetCollection.get", "SynsetHyponymCollection.get"}
     /\ ~NonNegativeStart(req))
    => /\ resp.status = 400
       /\ "items" \notin DOMAIN resp.body[1]

\* The schema a write handler validates against.
SchemaOf(r) == SynsetSchema(r.handler = "SynsetHyponymCollection.post")
WriteHandlers == {"SynsetCollection.post", "SynsetItem.put", "SynsetHyponymCollection.post"}
AddressedHandlers == {"SynsetItem.put", "SynsetHyponymCollection.post"}

\* C9 (as claimed, read for requests whose addressed synset, if any, exists): a
\* write request whose body is JSON that does not satisfy the schema, the empty
\* object included, is answered 400; 415 is returned only when the body is
\* missing or not JSON.
C9_InvalidJsonIs400 ==
    (/\ req.handler \in WriteHandlers
     /\ req.handler \in AddressedHandlers => Exists(req.wnid[1]))
    => /\ (req.json.present /\ ~Validate(req.json, SchemaOf(req))) => resp.status = 400
       /\ resp.status = 415 => ~req.json.present

\* C10 (as claimed): a synset PUT or hyponym POST addressed to a wnid that does
\* not exist is answered 415 when it has no JSON body and 400 when its JSON body
\* is schema-invalid.
C10_BodyChecksFirst ==
    [][(/\ req = NoRequest
        /\ req'.handler \in AddressedHandlers
        /\ ~Exists(req'.wnid[1]))
       => /\ ~req'.json.present => resp'.status = 415
          /\ (req'.json.present /\ ~Validate(req'.json, SchemaOf(req')))
                 => resp'.status = 400]_vars

\* C10 (amended): a synset PUT or hyponym POST addressed to a wnid that does not
\* exist is answered 404 whatever its body, and nothing is stored.  When the
\* addressed synset exists, and for a synset POST, a request without a JSON body
\* is answered 415, a non-empty schema-invalid JSON body 400, and the later
\* checks (the hyponym's existence, 404, and uniqueness, 409) answer only
\* requests whose body passed both.
C10_AddressedSynsetFirst ==
    [][(req = NoRequest /\ req'.handler \in WriteHandlers)
       => IF req'.handler \in AddressedHandlers /\ ~Exists(req'.wnid[1])
          THEN /\ resp'.status = 404
               /\ resp'.body[1]["@error"]["@messages"][1][2] = req'.wnid[1]
               /\ UNCHANGED <<synsets, images, orphans>>
          ELSE /\ ~req'.json.present => resp'.status = 415
               /\ (/\ req'.json.present
                   /\ DOMAIN req'.json.object # {}
                   /\ ~Validate(req'.json, SchemaOf(req')))
                      => resp'.status = 400
               /\ resp'.status \in {404, 409}
                      => Truthy(req'.json) /\ Validate(req'.json, SchemaOf(req'))]_vars

\* C10 witness: a PUT without a JSON body, addressed to a wnid that does not
\* exist, was answered 404.
C10_Witness ==
    /\ Served("SynsetItem.put", 404)
    /\ ~req.json.present

UniqueWnids == \A s \in synsets, t \in synsets : s.wnid = t.wnid => s = t

\* C11: no two synsets ever share a wnid.  A Synset Item PUT of a schema-valid
\* payload on an existing synset A is answered 409, the table unchanged, when
\* the payload wnid is that of another existing synset; when it is A's own or
\* an unused wnid it is answered 204 and A's wnid, words and gloss are the
\* payload's, the other synsets' fields as before.
C11_PutKeepsWnidsUnique ==
    [][/\ UniqueWnids'
       /\ (/\ req = NoRequest
           /\ req'.handler = "SynsetItem.put"
           /\ Exists(req'.wnid[1])
           /\ ValidSynset(req'.json))
          => LET a == req'.wnid[1]
                 new == req'.json.object["wnid"].value
             IN  IF new # a /\ Exists(new)
                 THEN /\ resp'.status = 409
                      /\ UNCHANGED synsets
                 ELSE /\ resp'.status = 204
                      /\ \E s \in synsets' :
                             Fields(s) = <<new, req'.json.object["words"].value,
                                           req'.json.object["gloss"].value>>
                      /\ new # a => ~\E s \in synsets' : s.wnid = a
                      /\ {Fields(s) : s \in {t \in synsets' : t.wnid # new}}
                             = {Fields(s) : s \in {t \in synsets : t.wnid # a}}]_vars

\* C11 witness: a PUT answered 204 gave a synset an unused wnid while another
\* synset is stored.
C11_Witness ==
    /\ Served("SynsetItem.put", 204)
    /\ req.json.object["wnid"].value # req.wnid[1]
    /\ Cardinality(synsets) >= 2

ErrorStatuses == {400, 404, 409, 415}
GetHandlers == {"SynsetCollection.get", "SynsetItem.get",
                "SynsetHyponymCollection.get", "SynsetHyponymItem.get"}
\* The request just served, sent again, gets the response it got.
SameAnswerAgain == \E rejects \in BOOLEAN : Dispatch(req, rejects).resp = resp

\* C12: a request answered 400, 404, 409 or 415, and every GET, leaves the
\* synsets, their wnid, words and gloss and their hyponym edges as they were,
\* and sent again right away it gets the same answer; so a DELETE of a missing
\* synset or edge is answered 404 each time and a PUT refused with 409 leaves
\* the addressed synset's fields alone.
C12_ErrorsAndGetsChangeNothing ==
    /\ [][(req = NoRequest /\ req' # NoRequest
            /\ (resp'.status \in ErrorStatuses \/ req'.handler \in GetHandlers))
           => UNCHANGED <<synsets, orphans>>]_vars
    /\ []((req # NoRequest
           /\ (resp.status \in ErrorStatuses \/ req.handler \in GetHandlers))
          => SameAnswerAgain)

\* C12 witness: a PUT that would have changed the words of the addressed synset
\* was refused with 409.
C12_Witness ==
    /\ Served("SynsetItem.put", 409)
    /\ \E s \in synsets : /\ s.wnid = req.wnid[1]
                          /\ s.words # req.json.object["words"].value

\* C13: a Hyponym Item GET on (A,B) is answered 200 or 404, and 200 exactly when
\* A exists and B is in A's hyponym collection; the 200 document has wnid B and
\* a delete control for the hyponym item (A,B).  Right after a POST of the edge
\* answered 201 the GET is answered 200, right after a DELETE of it answered 204
\* the GET is answered 404.
C13_HyponymItemGet ==
    /\ req.handler = "SynsetHyponymItem.get"
           => LET a == req.wnid[1]
                  b == req.hyponym_wnid[1]
              IN  /\ resp.status \in {200, 404}
                  /\ resp.status = 200 <=> (Exists(a) /\ Exists(b) /\ HasEdge(synsets, a, b))
                  /\ resp.status = 200
                         => /\ resp.body[1]["wnid"] = b
                            /\ "imagenet_browser:delete" \in DOMAIN resp.body[1]["@controls"]
                            /\ resp.body[1]["@controls"]["imagenet_browser:delete"]["href"]
                                   = UrlFor("api.synsethyponymitem", <<a, b>>)
                            /\ resp.body[1]["@controls"]["imagenet_browser:delete"]["method"]
                                   = "DELETE"
    /\ Served("SynsetHyponymCollection.post", 201)
           => SynsetHyponymItem_get(req.wnid[1], req.json.object["wnid"].value).resp.status = 200
    /\ Served("SynsetHyponymItem.delete", 204)
           => SynsetHyponymItem_get(req.wnid[1], req.hyponym_wnid[1]).resp.status = 404

\* C13 witness: a Hyponym Item GET was answered 404 although both synsets exist,
\* the second being a hyponym of some synset but not of the first.
C13_Witness ==
    /\ Served("SynsetHyponymItem.get", 404)
    /\ Exists(req.wnid[1])
    /\ Exists(req.hyponym_wnid[1])
    /\ \E x \in Wnids : HasEdge(synsets, x, req.hyponym_wnid[1])

\* The hyponym collection of the synset with this wnid in a table.
HyponymsOf(S, wnid) == (CHOOSE s \in S : s.wnid = wnid).hyponyms
\* The rows of a table other than the one with this wnid.
Others(S, wnid) == {s \in S : s.wnid # wnid}

\* C14: a Hyponym Collection POST and a Hyponym Item DELETE, whatever their
\* answer, leave the synsets and their wnid, words and gloss as they were.  A
\* POST answered 201 appends the one named synset to the owner's collection and
\* a DELETE answered 204 removes the one named synset from it, the other
\* collections as before; with any other answer no collection changes; a
\* schema-valid POST to an existing owner that names a missing wnid is answered
\* 404.
C14_EdgeWritesKeepSynsets ==
    [][(req = NoRequest
        /\ req'.handler \in {"SynsetHyponymCollection.post", "SynsetHyponymItem.delete"})
       => LET a == req'.wnid[1]
              posted == req'.handler = "SynsetHyponymCollection.post"
          IN  /\ {Fields(s) : s \in synsets'} = {Fields(s) : s \in synsets}
              /\ UNCHANGED <<images, orphans>>
              /\ (posted /\ resp'.status = 201)
                     => /\ HyponymsOf(synsets', a)
                               = Append(HyponymsOf(synsets, a), req'.json.object["wnid"].value)
                        /\ Others(synsets', a) = Others(synsets, a)
              /\ (~posted /\ resp'.status = 204)
                     => LET before == HyponymsOf(synsets, a)
                            after == HyponymsOf(synsets', a)
                            b == req'.hyponym_wnid[1]
                        IN  /\ Len(after) = Len(before) - 1
                            /\ after = SelectSeq(before, LAMBDA h : h # b)
                            /\ Others(synsets', a) = Others(synsets, a)
              /\ resp'.status \notin {201, 204} => UNCHANGED synsets
              /\ (/\ posted
                  /\ Exists(a)
                  /\ Truthy(req'.json)
                  /\ Validate(req'.json, SynsetSchema(TRUE))
                  /\ ~Exists(req'.json.object["wnid"].value))
                     => resp'.status = 404]_vars

\* C14 witness: a Hyponym Item DELETE answered 204 took one of several hyponyms
\* out of the owner's collection.
C14_Witness ==
    /\ Served("SynsetHyponymItem.delete", 204)
    /\ HyponymsOf(synsets, req.wnid[1]) # <<>>

\* C15: for an existing synset with hyponym collection H and a start >= 0, the
\* Hyponym Collection GET is answered 200 with, as items, H[start ..
\* start+pageSize-1] in collection order, a prev control iff start >= pageSize,
\* pointing at start-pageSize, and a next control iff more than pageSize
\* hyponyms remain from position start on, pointing at start+pageSize.  For a
\* missing owner (and an integer start) it is answered 404.
C15_HyponymPage ==
    (req.handler = "SynsetHyponymCollection.get" /\ IsInt(req.start))
    => IF ~Exists(req.wnid[1])
       THEN resp.status = 404
       ELSE NonNegativeStart(req)
            => /\ resp.status = 200
               /\ LET H == HyponymsOf(synsets, req.wnid[1])
                      start == StartOf(req)
                      items == resp.body[1]["items"]
                      controls == resp.body[1]["@controls"]
                      url == UrlFor("api.synsethyponymcollection", req.wnid)
                  IN  /\ Len(items) <= SYNSET_PAGE_SIZE
                      /\ Len(items) = IF Len(H) - start >= SYNSET_PAGE_SIZE
                                      THEN SYNSET_PAGE_SIZE
                                      ELSE IF Len(H) > start THEN Len(H) - start ELSE 0
                      /\ \A i \in 1 .. Len(items) :
                             /\ items[i]["wnid"] = H[start + i]
                             /\ \E s \in synsets : /\ s.wnid = H[start + i]
                                                   /\ s.words = items[i]["words"]
                                                   /\ s.gloss = items[i]["gloss"]
                      /\ "prev" \in DOMAIN controls <=> start >= SYNSET_PAGE_SIZE
                      /\ "next" \in DOMAIN controls <=> Len(H) - start > SYNSET_PAGE_SIZE
                      /\ "prev" \in DOMAIN controls
                             => controls["prev"]["href"] = WithStart(url, start - SYNSET_PAGE_SIZE)
                      /\ "next" \in DOMAIN controls
                             => controls["next"]["href"] = WithStart(url, start + SYNSET_PAGE_SIZE)

\* C15 witness: a full page of hyponyms with a next control, the hyponyms not in
\* ascending wnid order.
C15_Witness ==
    /\ Served("SynsetHyponymCollection.get", 200)
    /\ NonNegativeStart(req)
    /\ "next" \in DOMAIN resp.body[1]["@controls"]
    /\ resp.body[1]["items"][1]["wnid"] > resp.body[1]["items"][2]["wnid"]

\* C16: every response with status 400, 404, 409 or 415 is the uniform error
\* document: the request path, an @error block with one title and a details
\* array of exactly one element, a profile control pointing at the error
\* profile, and nothing else (no resource fields, no items); no response with a
\* 2xx status has an @error block.
C16_UniformErrors ==
    /\ (req # NoRequest /\ resp.status \in ErrorStatuses)
           => /\ Len(resp.body) = 1
              /\ resp.mimetype = MASON
              /\ DOMAIN resp.body[1] = {"resource_url", "@error", "@controls"}
              /\ resp.body[1]["resource_url"] = RequestPath(req)
              /\ DOMAIN resp.body[1]["@error"] = {"@message", "@messages"}
              /\ Len(resp.body[1]["@error"]["@messages"]) = 1
              /\ DOMAIN resp.body[1]["@controls"] = {"profile"}
              /\ resp.body[1]["@controls"]["profile"]["href"] = ERROR_PROFILE
    /\ (req # NoRequest /\ resp.status \in 200 .. 299)
           => \A i \in 1 .. Len(resp.body) : "@error" \notin DOMAIN resp.body[i]

\* C16 witness: a Hyponym Collection POST of an edge that is there already was
\* answered with the 409 error document.
C16_Witness ==
    /\ Served("SynsetHyponymCollection.post", 409)
    /\ "@error" \in DOMAIN resp.body[1]
    /\ resp.body[1]["resource_url"] = UrlFor("api.synsethyponymcollection", req.wnid)

\* What a document holds outside one name of one reserved key.
Outside(d, key, name) ==
    [k \in DOMAIN d |->
        IF k = key THEN [n \in DOMAIN d[k] \ {name} |-> d[k][n]] ELSE d[k]]

\* C17: after any sequence of addControl and addNamespace calls every entry
\* under @controls has an href; the entry of the control name just added is
\* the href and the options of that call and nothing else, so earlier options
\* for the name are gone; the entry of the namespace prefix just registered is
\* the URI of that call; making the call again gives the same document; and the
\* entries of the other names, and the other keys of the document, are as they
\* were before the call.
C17_BuilderLastWriteWins ==
    [][/\ \A n \in Registered(document', "@controls") :
              "href" \in DOMAIN document'["@controls"][n]
       /\ \A n \in ControlNames, h \in Hrefs, o \in ControlOptions :
              (last_call'.op = "add_control" /\ last_call'.name = n
               /\ last_call'.value = h /\ last_call'.options = o)
              => /\ DOMAIN document'["@controls"][n] = {"href"} \cup DOMAIN o
                 /\ document'["@controls"][n]["href"] = h
                 /\ \A k \in DOMAIN o : document'["@controls"][n][k] = o[k]
                 /\ add_control(document', n, h, o) = document'
                 /\ Outside(document', "@controls", n)
                        = Outside(document @@ ("@controls" :> <<>>), "@controls", n)
       /\ \A n \in NamespacePrefixes, u \in Uris :
              (last_call'.op = "add_namespace" /\ last_call'.name = n
               /\ last_call'.value = u)
              => /\ document'["@namespaces"][n] = [name |-> u]
                 /\ add_namespace(document', n, u) = document'
                 /\ Outside(document', "@namespaces", n)
                        = Outside(document @@ ("@namespaces" :> <<>>), "@namespaces", n)]_vars

\* C17 witness: a control that had been registered was registered again, without
\* options, in a document that holds a namespace and a second control.
C17_Witness ==
    /\ last_call.op = "add_control"
    /\ last_call.replaced
    /\ last_call.options = NoOptions
    /\ Registered(document, "@controls") = ControlNames
    /\ Registered(document, "@namespaces") # {}

\* Both concurrent requests are answered.
AllAnswered == \A p \in Procs : sessions[p].pc = "done"
\* The number of times the hyponym is in the owner's collection.
Occurrences(wnid, hyponym_wnid) ==
    Cardinality({i \in 1 .. Len(Loaded(wnid)) : Loaded(wnid)[i] = hyponym_wnid})

\* C18 (as claimed): when two Hyponym Collection POSTs of the same edge A->B,
\* the edge not stored when they arrive, are handled concurrently, then under
\* every interleaving of their steps one is answered 201 and the other 409 and
\* A's hyponym collection holds B exactly once.
C18_ConcurrentPostsOneCreated ==
    (/\ AllAnswered
     /\ sessions[1].handler = "SynsetHyponymCollection.post"
     /\ sessions[2].handler = "SynsetHyponymCollection.post"
     /\ sessions[1].wnid = sessions[2].wnid
     /\ sessions[1].hyponym_wnid = sessions[2].hyponym_wnid
     /\ ~sessions[1].edge_at_arrival)
    => /\ {sessions[1].status, sessions[2].status} = {201, 409}
       /\ Occurrences(sessions[1].wnid, sessions[1].hyponym_wnid[1]) = 1

\* C19 (as claimed): when a Hyponym Collection POST of the edge A->B is handled
\* concurrently with a Synset Item DELETE of A or of B, then under every
\* interleaving of their steps, once both are answered, no stored edge points
\* from or to a synset that does not exist.
C19_NoEdgeOfDeletedSynset ==
    (/\ AllAnswered
     /\ \E p \in Procs, q \in Procs :
            /\ sessions[p].handler = "SynsetHyponymCollection.post"
            /\ sessions[q].handler = "SynsetItem.delete"
            /\ sessions[q].wnid \in {sessions[p].wnid, sessions[p].hyponym_wnid[1]})
    => /\ orphans = {}
       /\ \A s \in synsets : \A i \in 1 .. Len(s.hyponyms) : Exists(s.hyponyms[i])

\* The client holds a page without a next control.
BrowseDone == req # NoRequest /\ ~HasNextControl(resp)
\* The wnids of a sequence of rows.
WnidsOf(rows) == [i \in 1 .. Len(rows) |-> rows[i].wnid]

\* C20: with the stored synsets held fixed, a client that GETs the Synset
\* Collection at start 0 and keeps following the next control comes, after
\* finitely many pages, to a page without a next control, and the items of the
\* pages it visited are then the stored synsets, each once, in ascending wnid
\* order; for a Hyponym Collection they are the owner's hyponyms, each once, in
\* the order of the owner's list.
C20_FollowingNextEndsComplete ==
    /\ (req # NoRequest) ~> BrowseDone
    /\ [](BrowseDone
          => visited = IF req.handler = "SynsetCollection.get"
                       THEN WnidsOf(OrderBy(synsets))
                       ELSE HyponymsOf(synsets, req.wnid[1]))

\* C20 witness: a client came to the last of three pages of a Hyponym
\* Collection.
C20_Witness ==
    /\ BrowseDone
    /\ req.handler = "SynsetHyponymCollection.get"
    /\ Len(visited) > 2 * SYNSET_PAGE_SIZE

\* C21: a Hyponym Collection POST checks nothing beyond the existence of both
\* synsets and the absence of the same edge: a schema-valid POST of {wnid: B}
\* to an existing A, B existing and A->B not stored, is answered 201 with the
\* Location of the hyponym item and stores A->B next to the edges that were
\* there, also when B is A itself and when B->A is stored.
C21_NoCycleCheck ==
    [][(/\ req = NoRequest
        /\ req'.handler = "SynsetHyponymCollection.post"
        /\ Truthy(req'.json)
        /\ Validate(req'.json, SynsetSchema(TRUE))
        /\ Exists(req'.wnid[1])
        /\ Exists(req'.json.object["wnid"].value)
        /\ ~HasEdge(synsets, req'.wnid[1], req'.json.object["wnid"].value))
       => /\ resp'.status = 201
          /\ resp'.location = <<UrlFor("api.synsethyponymitem",
                                       <<req'.wnid[1], req'.json.object["wnid"].value>>)>>
          /\ HasEdge(synsets', req'.wnid[1], req'.json.object["wnid"].value)
          /\ \A x \in Wnids, y \in Wnids :
                 HasEdge(synsets, x, y) => HasEdge(synsets', x, y)]_vars

\* C21 witness: a POST answered 201 closed a cycle between two synsets, one of
\* which is also its own hyponym.
C21_Witness ==
    /\ Served("SynsetHyponymCollection.post", 201)
    /\ req.json.object["wnid"].value # req.wnid[1]
    /\ HasEdge(synsets, req.wnid[1], req.json.object["wnid"].value)
    /\ HasEdge(synsets, req.json.object["wnid"].value, req.wnid[1])
    /\ \E x \in Wnids : HasEdge(synsets, x, x)

====
